---- MODULE Spec2Model ----
(***************************************************************************)
(* Model of src/adapters/postproc.rs of ripgrep-all: the streaming         *)
(* post-processors postproc_encoding, postproc_prefix, postproc_pagebreaks *)
(* and the adapter PostprocPrefix::adapt.                                  *)
(*                                                                         *)
(* Bytes are integers 0..255, byte strings are sequences of bytes.  The    *)
(* wrapped input is an AsyncRead whose read results (a chunk, an error or  *)
(* end of file) are chosen by the environment at each read; inp_log keeps  *)
(* the results read so far.  A consumer pull is one poll_read on the       *)
(* outermost reader; while a pull is pending the readers, the generator    *)
(* of stream! and the ReaderStream advance one step at a time.             *)
(***************************************************************************)
EXTENDS Integers, Sequences, FiniteSets, TLC

VARIABLES
    mode,          \* entry point: "prefix", "pagebreaks" (tests) or "adapt"
    line_prefix,   \* the caller's line_prefix argument
    a,             \* the AdaptInfo handed to adapt
    adapted,       \* the AdaptInfo items of the stream returned by adapt
    inp_log,       \* results of the reads issued on the wrapped input
    reader,        \* ReaderStream.reader is Some
    gen_pc,        \* position of the stream! generator
    page_count,    \* postproc_pagebreaks: page_count
    line_prefix_s, \* postproc_pagebreaks: the local String line_prefix
    sub_chunks,    \* postproc_pagebreaks: rest of chunk_iter
    sr_chunk,      \* StreamReader: the unread rest of the buffered chunk
    done_first,    \* Chain.done_first
    cursor_pos,    \* position of the Cursor of add_newline
    pull,          \* "idle", or "polling" while a poll_read is in progress
    out,           \* bytes delivered to the consumer
    last,          \* result of the last completed pull
    err_seen,      \* errors delivered to the consumer
    yielded        \* items yielded by the generator

vars == <<mode, line_prefix, a, adapted, inp_log, reader, gen_pc, page_count,
          line_prefix_s, sub_chunks, sr_chunk, done_first, cursor_pos, pull,
          out, last, err_seen, yielded>>

\* ------------------------------------------------------------------ bounds
MaxLit == 2        \* longest line_prefix
MaxInput == 3      \* most bytes the wrapped input delivers
MaxBuf == 4        \* the consumer's buffer has MaxBuf or 2 * MaxBuf free bytes

\* ------------------------------------------------------------------- bytes
NUL == 0
NL == 10
form_feed == 12
DOLLAR == 36
LBRACE == 123
RBRACE == 125

InBytes == {NUL, NL, form_feed, 48}
LitBytes == {DOLLAR, 48, NL}
IoErrors == {"BrokenPipe", "TimedOut"}
Hints == {"a.zip"}

SeqsUpTo(S, n) == UNION {[1..k -> S] : k \in 0..n}

Contains(s, b) == \E i \in DOMAIN s : s[i] = b

RECURSIVE Concat(_)
Concat(ss) == IF ss = <<>> THEN <<>> ELSE Head(ss) \o Concat(Tail(ss))

\* mutant: the slice is not split, the form feeds stay in it
Split_none(s, b) == <<s>>

\* slice::split: the pieces between the bytes equal to b, empty ones included
RECURSIVE Split(_, _)
Split(s, b) ==
    IF ~Contains(s, b) THEN <<s>>
    ELSE LET i == CHOOSE k \in DOMAIN s :
                      s[k] = b /\ \A j \in 1..(k - 1) : s[j] # b
         IN <<SubSeq(s, 1, i - 1)>> \o Split(SubSeq(s, i + 1, Len(s)), b)

RECURSIVE Decimal(_)
Decimal(n) == IF n < 10 THEN <<48 + n>>
              ELSE Decimal(n \div 10) \o <<48 + (n % 10)>>

PageStr == <<80, 97, 103, 101, 32>>
COLON == 58

\* format!("\n{}Page {}:", p, n)
format_label(p, n) == <<NL>> \o p \o PageStr \o Decimal(n) \o <<COLON>>

\* ------------------------------------------------ regex replacement strings
\* regex: is_valid_cap_letter, [0-9A-Za-z_]
is_valid_cap_letter(b) ==
    b \in (48..57) \cup (65..90) \cup (97..122) \cup {95}

\* str::parse::<u32>() of a capture name gives group 0: an optional '+' and
\* then one or more '0' digits.  Every other name, numeric or not, names a
\* group the pattern "\n" does not have.
IsGroupZero(name) ==
    LET digits == IF name # <<>> /\ Head(name) = 43 THEN Tail(name) ELSE name
    IN digits # <<>> /\ \A i \in DOMAIN digits : digits[i] = 48

\* number of leading bytes of s that satisfy is_valid_cap_letter
RECURSIVE CapLetters(_)
CapLetters(s) ==
    IF s # <<>> /\ is_valid_cap_letter(Head(s)) THEN 1 + CapLetters(Tail(s))
    ELSE 0

\* regex: find_cap_ref on a replacement that starts with '$' and is not
\* "$$...": [name, end] of the reference, end = 0 when there is none
find_cap_ref(rep) ==
    IF Len(rep) <= 1 THEN [name |-> <<>>, end |-> 0]
    ELSE IF rep[2] = LBRACE THEN
        IF \E i \in 3..Len(rep) : rep[i] = RBRACE THEN
            LET i == CHOOSE k \in 3..Len(rep) :
                         rep[k] = RBRACE /\ \A j \in 3..(k - 1) : rep[j] # RBRACE
            IN [name |-> SubSeq(rep, 3, i - 1), end |-> i]
        ELSE [name |-> <<>>, end |-> 0]
    ELSE LET n == CapLetters(Tail(rep))
         IN IF n = 0 THEN [name |-> <<>>, end |-> 0]
            ELSE [name |-> SubSeq(rep, 2, n + 1), end |-> n + 1]

\* regex: expand_bytes: the replacement rep expanded for the match m of the
\* pattern "\n", which has the whole match as its only capture group
RECURSIVE expand_bytes(_, _)
expand_bytes(m, rep) ==
    IF rep = <<>> THEN <<>>
    ELSE IF Head(rep) # DOLLAR THEN <<Head(rep)>> \o expand_bytes(m, Tail(rep))
    ELSE IF Len(rep) >= 2 /\ rep[2] = DOLLAR
        THEN <<DOLLAR>> \o expand_bytes(m, SubSeq(rep, 3, Len(rep)))
    ELSE LET r == find_cap_ref(rep)
         IN IF r.end = 0 THEN <<DOLLAR>> \o expand_bytes(m, Tail(rep))
            ELSE (IF IsGroupZero(r.name) THEN m ELSE <<>>)
                 \o expand_bytes(m, SubSeq(rep, r.end + 1, Len(rep)))

\* Regex::new("\n").replace_all(chunk, rep)
RECURSIVE replace_all(_, _)
replace_all(chunk, rep) ==
    IF chunk = <<>> THEN <<>>
    ELSE (IF Head(chunk) = NL THEN expand_bytes(<<NL>>, rep) ELSE <<Head(chunk)>>)
         \o replace_all(Tail(chunk), rep)

\* ------------------------------------------------------- read results, log
Chunk(b) == [t |-> "chunk", b |-> b]
IoErr(e) == [t |-> "err", e |-> e]
Eof == [t |-> "eof"]

\* the chunks of a log, in order
RECURSIVE ChunksOf(_)
ChunksOf(log) ==
    IF log = <<>> THEN <<>>
    ELSE (IF Head(log).t = "chunk" THEN <<Head(log).b>> ELSE <<>>)
         \o ChunksOf(Tail(log))

InputBytes == Concat(ChunksOf(inp_log))

\* byte-order marks: UTF-8, UTF-16LE
Utf8Bom == <<239, 187, 191>>
Utf16LeBom == <<255, 254>>
Boms == {Utf8Bom, Utf16LeBom}

StartsWith(s, p) == Len(p) <= Len(s) /\ SubSeq(s, 1, Len(p)) = p

\* the chunks a read can return when n more bytes are allowed: any bytes of
\* InBytes, and as the first chunk of the input also a byte-order mark
\* followed by such bytes
ChunksUpTo(n) ==
    {c \in SeqsUpTo(InBytes, n) : c # <<>>}
    \cup (IF InputBytes = <<>>
          THEN UNION {{bom \o c : c \in SeqsUpTo(InBytes, n - Len(bom))} :
                         bom \in {b \in Boms : Len(b) <= n}}
          ELSE {})

\* what a read of the wrapped input can return next
ReadResults ==
    {Chunk(b) : b \in ChunksUpTo(MaxInput - Len(InputBytes))}
    \cup {IoErr(e) : e \in IoErrors} \cup {Eof}

\* mutant: the first byte of every chunk read is lost
postproc_encoding_lossy(r) == IF r.t = "chunk" THEN Chunk(Tail(r.b)) ELSE r

\* postproc_encoding: the reader it returns is the input itself, so a read
\* of it returns what the read of the input returns
postproc_encoding(r) == r

\* ----------------------------------------------------- postproc_prefix
line_prefix_n == <<NL>> \o line_prefix
line_prefix_o == line_prefix

\* mutant: the error is replaced by another one
yield_err_other(e) == "Other"

\* Err(e) => yield Err(e): the error StreamReader hands to the consumer
yield_err(e) == e

\* mutant: a chunk without a newline is dropped, as postproc_pagebreaks does
prefix_chunk_drop(chunk) ==
    IF Contains(chunk, NL) THEN replace_all(chunk, line_prefix_n) ELSE <<>>

\* mutant: only the first newline of a chunk is replaced
prefix_chunk_first(chunk) ==
    IF ~Contains(chunk, NL) THEN chunk
    ELSE LET i == CHOOSE k \in DOMAIN chunk :
                      chunk[k] = NL /\ \A j \in 1..(k - 1) : chunk[j] # NL
         IN SubSeq(chunk, 1, i - 1) \o expand_bytes(<<NL>>, line_prefix_n)
            \o SubSeq(chunk, i + 1, Len(chunk))

\* the item postproc_prefix yields for an Ok chunk
prefix_chunk(chunk) ==
    IF Contains(chunk, NL) THEN replace_all(chunk, line_prefix_n) ELSE chunk

\* ----------------------------------------------------- postproc_pagebreaks
\* the label computed before the stream starts
initial_label == format_label(line_prefix, 0 + 1)

\* the label computed after a sub-chunk was emitted
next_label(cur, count) == format_label(cur, count)

\* mutant: sub-chunks without a newline are emitted and counted too
qualifies_all(sub_chunk) == TRUE

\* the sub-chunks postproc_pagebreaks emits
qualifies(sub_chunk) == Contains(sub_chunk, NL)

\* the item postproc_pagebreaks yields for a sub-chunk with a newline
page_sub_chunk(sub_chunk, cur) == replace_all(sub_chunk, cur)

\* ------------------------------------------------------ PostprocPrefix::adapt
Transformed == "add_newline(postproc_prefix(postproc_encoding(inp)))"

\* mutant: nothing is chained after the reader
cursor_data_none == <<>>

\* add_newline: the bytes of the Cursor chained after the reader
cursor_data == <<NL>>

\* mutant: postprocess is not cleared
adapt_info_keep(x) == [x EXCEPT !.inp = Transformed]

\* the AdaptInfo adapt builds from its argument x
adapt_info(x) == [x EXCEPT !.inp = Transformed, !.postprocess = FALSE]

\* --------------------------------------------------------------------- Init
Modes == {"prefix", "pagebreaks", "adapt"}
BufSizes == {MaxBuf, 2 * MaxBuf}

Init ==
    /\ mode \in Modes
    /\ line_prefix \in SeqsUpTo(LitBytes, MaxLit)
    /\ a \in [inp : {"inp"}, line_prefix : {line_prefix},
              postprocess : IF mode = "adapt" THEN BOOLEAN ELSE {FALSE},
              filepath_hint : Hints]
    /\ adapted = <<>>
    /\ inp_log = <<>>
    /\ reader = TRUE
    /\ gen_pc = "start"
    /\ page_count = 0
    /\ line_prefix_s = initial_label
    /\ sub_chunks = <<>>
    /\ sr_chunk = <<>>
    /\ done_first = FALSE
    /\ cursor_pos = 0
    /\ pull = "idle"
    /\ out = <<>>
    /\ last = "none"
    /\ err_seen = <<>>
    /\ yielded = <<>>

\* ------------------------------------------------------------------ actions
\* PostprocPrefix::adapt: one AdaptInfo, the readers are built but not polled
adapt ==
    /\ mode = "adapt"
    /\ adapted = <<>>
    /\ adapted' = <<adapt_info(a)>>
    /\ UNCHANGED <<mode, line_prefix, a, inp_log, reader, gen_pc, page_count,
                   line_prefix_s, sub_chunks, sr_chunk, done_first, cursor_pos,
                   pull, out, last, err_seen, yielded>>

\* the consumer calls poll_read
PullStart ==
    /\ pull = "idle"
    /\ mode = "adapt" => adapted # <<>>
    /\ pull' = "polling"
    /\ UNCHANGED <<mode, line_prefix, a, adapted, inp_log, reader, gen_pc,
                   page_count, line_prefix_s, sub_chunks, sr_chunk, done_first,
                   cursor_pos, out, last, err_seen, yielded>>

\* mutant: the producer runs whether or not the consumer has called poll_read
InFirst_eager == ~(mode = "adapt" /\ done_first)

\* the first half of the Chain, or the reader alone, is polled
InFirst == pull = "polling" /\ ~(mode = "adapt" /\ done_first)

\* Chain::poll_read with done_first set: the Cursor over "\n" is read
ChainSecond ==
    /\ pull = "polling"
    /\ mode = "adapt"
    /\ done_first
    /\ IF cursor_pos < Len(cursor_data)
       THEN \E cap \in BufSizes :
              LET rest == SubSeq(cursor_data, cursor_pos + 1, Len(cursor_data))
                  n == IF Len(rest) < cap THEN Len(rest) ELSE cap
              IN /\ out' = out \o SubSeq(rest, 1, n)
                 /\ cursor_pos' = cursor_pos + n
                 /\ last' = "data"
       ELSE /\ last' = "eof"
            /\ UNCHANGED <<out, cursor_pos>>
    /\ pull' = "idle"
    /\ UNCHANGED <<mode, line_prefix, a, adapted, inp_log, reader, gen_pc,
                   page_count, line_prefix_s, sub_chunks, sr_chunk, done_first,
                   err_seen, yielded>>

\* StreamReader::poll_read with a buffered chunk: copy what fits into the
\* consumer's buffer, which has cap free bytes
SrCopy ==
    /\ InFirst
    /\ sr_chunk # <<>>
    /\ \E cap \in BufSizes :
         LET n == IF Len(sr_chunk) < cap THEN Len(sr_chunk) ELSE cap
         IN /\ out' = out \o SubSeq(sr_chunk, 1, n)
            /\ sr_chunk' = SubSeq(sr_chunk, n + 1, Len(sr_chunk))
    /\ last' = "data"
    /\ pull' = "idle"
    /\ UNCHANGED <<mode, line_prefix, a, adapted, inp_log, reader, gen_pc,
                   page_count, line_prefix_s, sub_chunks, done_first, cursor_pos,
                   err_seen, yielded>>

\* the generator's first poll: yield the literal, or the first label
GenStart ==
    /\ InFirst
    /\ sr_chunk = <<>>
    /\ gen_pc = "start"
    /\ LET item == IF mode = "pagebreaks" THEN line_prefix_s ELSE line_prefix_o
       IN /\ sr_chunk' = item
          /\ yielded' = Append(yielded, Chunk(item))
    /\ gen_pc' = "loop"
    /\ UNCHANGED <<mode, line_prefix, a, adapted, inp_log, reader, page_count,
                   line_prefix_s, sub_chunks, done_first, cursor_pos, pull,
                   out, last, err_seen>>

\* for await chunk in inp_stream: ReaderStream reads the input, Ok(chunk)
GenReadChunk ==
    /\ InFirst
    /\ sr_chunk = <<>>
    /\ gen_pc = "loop"
    /\ reader
    /\ \E r \in {x \in ReadResults : x.t = "chunk"} :
         /\ inp_log' = Append(inp_log, r)
         /\ LET chunk == postproc_encoding(r).b
            IN IF mode = "pagebreaks"
               THEN /\ sub_chunks' = Split(chunk, form_feed)
                    /\ gen_pc' = "sub"
                    /\ UNCHANGED <<sr_chunk, yielded>>
               ELSE /\ sr_chunk' = prefix_chunk(chunk)
                    /\ yielded' = Append(yielded, Chunk(prefix_chunk(chunk)))
                    /\ UNCHANGED <<sub_chunks, gen_pc>>
    /\ UNCHANGED <<mode, line_prefix, a, adapted, reader, page_count,
                   line_prefix_s, done_first, cursor_pos, pull, out, last,
                   err_seen>>

\* the read fails: ReaderStream drops the reader, the generator yields
\* Err(e) and StreamReader::poll_read returns it
GenReadErr ==
    /\ InFirst
    /\ sr_chunk = <<>>
    /\ gen_pc = "loop"
    /\ reader
    /\ \E r \in {x \in ReadResults : x.t = "err"} :
         /\ inp_log' = Append(inp_log, r)
         /\ yielded' = Append(yielded, IoErr(yield_err(postproc_encoding(r).e)))
         /\ err_seen' = Append(err_seen, yield_err(postproc_encoding(r).e))
         /\ last' = yield_err(postproc_encoding(r).e)
    /\ reader' = FALSE
    /\ pull' = "idle"
    /\ UNCHANGED <<mode, line_prefix, a, adapted, gen_pc, page_count,
                   line_prefix_s, sub_chunks, sr_chunk, done_first, cursor_pos,
                   out>>

\* the read returns Ok(0): ReaderStream drops the reader and ends, the
\* for await loop and with it the generator end
GenReadEof ==
    /\ InFirst
    /\ sr_chunk = <<>>
    /\ gen_pc = "loop"
    /\ reader
    /\ inp_log' = Append(inp_log, Eof)
    /\ reader' = FALSE
    /\ gen_pc' = "done"
    /\ UNCHANGED <<mode, line_prefix, a, adapted, page_count, line_prefix_s,
                   sub_chunks, sr_chunk, done_first, cursor_pos, pull, out,
                   last, err_seen, yielded>>

\* ReaderStream polled without a reader (after an error): None, the loop ends
GenReaderNone ==
    /\ InFirst
    /\ sr_chunk = <<>>
    /\ gen_pc = "loop"
    /\ ~reader
    /\ gen_pc' = "done"
    /\ UNCHANGED <<mode, line_prefix, a, adapted, inp_log, reader, page_count,
                   line_prefix_s, sub_chunks, sr_chunk, done_first, cursor_pos,
                   pull, out, last, err_seen, yielded>>

\* postproc_pagebreaks: for sub_chunk in chunk_iter
GenSub ==
    /\ InFirst
    /\ sr_chunk = <<>>
    /\ gen_pc = "sub"
    /\ IF sub_chunks = <<>>
       THEN /\ gen_pc' = "loop"
            /\ UNCHANGED <<sub_chunks, sr_chunk, yielded>>
       ELSE /\ sub_chunks' = Tail(sub_chunks)
            /\ IF qualifies(Head(sub_chunks))
               THEN /\ sr_chunk' = page_sub_chunk(Head(sub_chunks), line_prefix_s)
                    /\ yielded' = Append(yielded,
                           Chunk(page_sub_chunk(Head(sub_chunks), line_prefix_s)))
                    /\ gen_pc' = "incr"
               ELSE UNCHANGED <<sr_chunk, yielded, gen_pc>>
    /\ UNCHANGED <<mode, line_prefix, a, adapted, inp_log, reader, page_count,
                   line_prefix_s, done_first, cursor_pos, pull, out, last,
                   err_seen>>

\* postproc_pagebreaks resumed after the yield of a sub-chunk
GenIncr ==
    /\ InFirst
    /\ sr_chunk = <<>>
    /\ gen_pc = "incr"
    /\ page_count' = page_count + 1
    /\ line_prefix_s' = next_label(line_prefix_s, page_count + 1)
    /\ gen_pc' = "sub"
    /\ UNCHANGED <<mode, line_prefix, a, adapted, inp_log, reader, sub_chunks,
                   sr_chunk, done_first, cursor_pos, pull, out, last,
                   err_seen, yielded>>

\* the generator has ended: StreamReader reads 0 bytes; Chain sets done_first
\* and goes on to the Cursor in the same poll_read
SrEof ==
    /\ InFirst
    /\ sr_chunk = <<>>
    /\ gen_pc = "done"
    /\ IF mode = "adapt"
       THEN /\ done_first' = TRUE
            /\ UNCHANGED <<pull, last>>
       ELSE /\ pull' = "idle"
                    /\ last' = "eof"
            /\ UNCHANGED done_first
    /\ UNCHANGED <<mode, line_prefix, a, adapted, inp_log, reader, gen_pc,
                   page_count, line_prefix_s, sub_chunks, sr_chunk, cursor_pos,
                   out, err_seen, yielded>>

StreamSteps ==
    \/ PullStart
    \/ SrCopy
    \/ GenStart
    \/ GenReadChunk
    \/ GenReadErr
    \/ GenReadEof
    \/ GenReaderNone
    \/ SrEof

\* the test harness with pagebreaks = false: postproc_prefix alone
NextPrefix == StreamSteps
InitPrefix == Init /\ mode = "prefix"
SpecPrefix == InitPrefix /\ [][NextPrefix]_vars

\* the test harness with pagebreaks = true: postproc_pagebreaks
NextPage == StreamSteps \/ GenSub \/ GenIncr
InitPage == Init /\ mode = "pagebreaks"
SpecPage == InitPage /\ [][NextPage]_vars

\* PostprocPrefix::adapt and the reader of the AdaptInfo it returns
NextAdapt == adapt \/ StreamSteps \/ ChainSecond
InitAdapt == Init /\ mode = "adapt"
SpecAdapt == InitAdapt /\ [][NextAdapt]_vars

\* the test harness with either value of pagebreaks
NextStreams == StreamSteps \/ GenSub \/ GenIncr
InitStreams == Init /\ mode \in {"prefix", "pagebreaks"}
SpecStreams == InitStreams /\ [][NextStreams]_vars

Next == adapt \/ StreamSteps \/ ChainSecond \/ GenSub \/ GenIncr
Spec == Init /\ [][Next]_vars

\* ================================================================== claims
\* the run has delivered the whole stream, with no read error
Finished == last = "eof" /\ err_seen = <<>>

\* the bytes the reader returned by postproc_encoding has delivered
RECURSIVE EncodedLog(_)
EncodedLog(log) ==
    IF log = <<>> THEN <<>>
    ELSE <<postproc_encoding(Head(log))>> \o EncodedLog(Tail(log))

EncodedBytes == Concat(ChunksOf(EncodedLog(inp_log)))

\* the lookahead window of postproc_encoding, 1 << 13 bytes
Window == 8192

\* "[rga: binary data]"
Sentinel == <<91, 114, 103, 97, 58, 32, 98, 105, 110, 97, 114, 121, 32,
              100, 97, 116, 97, 93>>

HasNulInWindow(s) == \E i \in DOMAIN s : i <= Window /\ s[i] = NUL

CountByte(s, b) == Cardinality({i \in DOMAIN s : s[i] = b})

\* number of places of s at which lit occurs
Occurrences(lit, s) ==
    Cardinality({i \in 1..(Len(s) - Len(lit) + 1) :
                    SubSeq(s, i, i + Len(lit) - 1) = lit})

\* s with every "\n" replaced by "\n" ++ p, byte for byte
RECURSIVE Replaced(_, _)
Replaced(s, p) ==
    IF s = <<>> THEN <<>>
    ELSE (IF Head(s) = NL THEN <<NL>> \o p ELSE <<Head(s)>>)
         \o Replaced(Tail(s), p)

\* C1: when the first 8192 bytes of the input contain a NUL byte, the reader
\* returned by postproc_encoding delivers exactly "[rga: binary data]", and
\* postproc_prefix over it delivers the literal followed by that sentinel.
C1_BinarySentinel ==
    (mode = "prefix" /\ Finished /\ HasNulInWindow(InputBytes))
        => (EncodedBytes = Sentinel /\ out = line_prefix \o Sentinel)

\* C2: for an input with at least one "\n", every "\n" of the input is
\* followed in the output of postproc_prefix by one copy of the literal, and
\* the literal occurs (number of "\n" in the input) + 1 times in the output.
\* Stated for the literals and inputs in which the literal occurs nowhere
\* else, that is where the verbatim output has that many occurrences.
C2_OneLiteralPerNewline ==
    (/\ mode = "prefix" /\ Finished /\ Contains(InputBytes, NL)
     /\ Occurrences(line_prefix, line_prefix \o Replaced(InputBytes, line_prefix))
            = CountByte(InputBytes, NL) + 1)
        => /\ out = line_prefix \o Replaced(InputBytes, line_prefix)
           /\ Occurrences(line_prefix, out) = CountByte(InputBytes, NL) + 1

\* C3: postproc_prefix re-emits the literal verbatim: for every literal and
\* every error-free input the output is the literal followed by the input
\* with every "\n" replaced by "\n" ++ literal.
C3_LiteralVerbatim ==
    (mode = "prefix" /\ Finished)
        => out = line_prefix \o Replaced(InputBytes, line_prefix)

\* literal ++ "Page N:"
PageLabel(lit, n) == lit \o PageStr \o Decimal(n) \o <<COLON>>

\* the lines of s labelled as the tests of post1 expect: a form feed starts
\* the next page and is dropped, "\n" is followed by the label of its page
RECURSIVE LabelLines(_, _, _)
LabelLines(s, lit, n) ==
    IF s = <<>> THEN <<>>
    ELSE IF Head(s) = form_feed THEN LabelLines(Tail(s), lit, n + 1)
    ELSE IF Head(s) = NL
        THEN <<NL>> \o PageLabel(lit, n) \o LabelLines(Tail(s), lit, n)
    ELSE <<Head(s)>> \o LabelLines(Tail(s), lit, n)

ExpectedPages(lit, s) == PageLabel(lit, 1) \o LabelLines(s, lit, 1)

\* number of the form-feed-delimited sub-chunks with a "\n" in a list of pieces
RECURSIVE WithNewline(_)
WithNewline(pieces) ==
    IF pieces = <<>> THEN 0
    ELSE (IF Contains(Head(pieces), NL) THEN 1 ELSE 0) + WithNewline(Tail(pieces))

RECURSIVE SubChunksWithNewline(_)
SubChunksWithNewline(chunks) ==
    IF chunks = <<>> THEN 0
    ELSE WithNewline(Split(Head(chunks), form_feed))
         + SubChunksWithNewline(Tail(chunks))

\* C4: every line of the output of postproc_pagebreaks is prefixed with
\* literal ++ "Page N:", N = 1 + the number of form feeds before the line.
\* Stated for the inputs with a form feed of which two sub-chunks were
\* labelled.
C4_PageNumbers ==
    (/\ mode = "pagebreaks" /\ Finished
     /\ Contains(InputBytes, form_feed) /\ page_count >= 2)
        => out = ExpectedPages(line_prefix, InputBytes)

\* C5: in every state of postproc_pagebreaks the label is
\* "\n" ++ literal ++ "Page " ++ decimal(page_count + 1) ++ ":".
C5_LabelOfPageCount ==
    mode = "pagebreaks"
        => line_prefix_s = format_label(line_prefix, page_count + 1)

\* C6: for an input without form feed, with a "\n", delivered as one chunk,
\* the output of postproc_pagebreaks is P ++ input with every "\n" replaced by
\* "\n" ++ P, P = literal ++ "Page 1:", with no byte before the first P.
C6_SinglePage ==
    (/\ mode = "pagebreaks" /\ Finished
     /\ Len(ChunksOf(inp_log)) = 1
     /\ Contains(InputBytes, NL) /\ ~Contains(InputBytes, form_feed))
        => out = PageLabel(line_prefix, 1)
                 \o Replaced(InputBytes, PageLabel(line_prefix, 1))

C8_ErrorTerminates ==
    [][err_seen # <<>> => (out' = out /\ inp_log' = inp_log)]_vars

\* the whole output of postproc_prefix for the chunks read
RECURSIVE PrefixedChunks(_)
PrefixedChunks(chunks) ==
    IF chunks = <<>> THEN <<>>
    ELSE (IF Contains(Head(chunks), NL)
          THEN replace_all(Head(chunks), <<NL>> \o line_prefix)
          ELSE Head(chunks))
         \o PrefixedChunks(Tail(chunks))

PrefixOutput == line_prefix \o PrefixedChunks(ChunksOf(inp_log))

\* C9: for an error-free input the reader built by adapt delivers the whole
\* output of postproc_prefix, then one "\n", then end of stream: the "\n"
\* comes only after the wrapped input is exhausted, once, and is the last
\* byte of the output.
C9_TrailingNewline ==
    (mode = "adapt" /\ err_seen = <<>>)
        => /\ (cursor_pos = 0 /\ gen_pc = "start") => out = <<>>
           /\ (cursor_pos = 0 /\ gen_pc # "start") =>
                  out \o sr_chunk = PrefixOutput
           /\ cursor_pos # 0 =>
                  /\ out = PrefixOutput \o <<NL>>
                  /\ inp_log # <<>> /\ inp_log[Len(inp_log)] = Eof
           /\ last = "eof" => (out # <<>> /\ out[Len(out)] = NL /\ cursor_pos = 1)

\* the stream was read to its end, the input did not end with "\n"
C9_Witness ==
    /\ mode = "adapt" /\ Finished
    /\ InputBytes # <<>> /\ InputBytes[Len(InputBytes)] # NL
    /\ Contains(InputBytes, NL)
    /\ line_prefix # <<>>

\* C10: adapt yields one AdaptInfo; in it inp is the transformed reader,
\* postprocess is false and every other field is that of the argument.
C10_OneEnvelope ==
    /\ Len(adapted) <= 1
    /\ (mode = "adapt" /\ pull # "idle") => adapted # <<>>
    /\ adapted # <<>> =>
          /\ adapted[1].inp = Transformed
          /\ adapted[1].postprocess = FALSE
          /\ adapted[1].line_prefix = a.line_prefix
          /\ adapted[1].filepath_hint = a.filepath_hint
          /\ DOMAIN adapted[1] = DOMAIN a

\* adapt was called with postprocess set
C10_Witness == adapted # <<>> /\ a.postprocess /\ a.line_prefix # <<>>

HasBom(s) == \E bom \in Boms : StartsWith(s, bom)

C12_BomStripped ==
    (/\ mode = "prefix" /\ Finished
     /\ ~HasNulInWindow(InputBytes) /\ HasBom(InputBytes))
        => /\ ~HasBom(EncodedBytes)
           /\ StartsWith(InputBytes, Utf8Bom) =>
                  EncodedBytes = SubSeq(InputBytes, Len(Utf8Bom) + 1, Len(InputBytes))

\* C13: for an input without "\n" and without form feed the output of
\* postproc_prefix is literal ++ input, under every chunking; with the empty
\* literal the output is the input, for every input.
C13_PrefixPassthrough ==
    (mode = "prefix" /\ Finished)
        => /\ (~Contains(InputBytes, NL) /\ ~Contains(InputBytes, form_feed))
                  => out = line_prefix \o InputBytes
           /\ line_prefix = <<>> => out = InputBytes

\* a literal with '$' before an input without newline, read in two chunks
C13_Witness ==
    /\ mode = "prefix" /\ Finished
    /\ Contains(line_prefix, DOLLAR) /\ Len(line_prefix) = 2
    /\ ~Contains(InputBytes, NL) /\ ~Contains(InputBytes, form_feed)
    /\ Len(ChunksOf(inp_log)) >= 2

\* the form-feed-delimited sub-chunks of a list of chunks, in order
RECURSIVE AllPieces(_)
AllPieces(chunks) ==
    IF chunks = <<>> THEN <<>>
    ELSE Split(Head(chunks), form_feed) \o AllPieces(Tail(chunks))

\* the items emitted for a list of sub-chunks when only those with a "\n" are
\* emitted; label is the current label, n the number of items emitted before
RECURSIVE PageYields(_, _, _)
PageYields(pieces, label, n) ==
    IF pieces = <<>> THEN <<>>
    ELSE IF Contains(Head(pieces), NL)
        THEN <<replace_all(Head(pieces), label)>>
             \o PageYields(Tail(pieces), format_label(label, n + 1), n + 1)
    ELSE PageYields(Tail(pieces), label, n)

\* the label after k recomputations
RECURSIVE NthLabel(_)
NthLabel(k) ==
    IF k = 0 THEN format_label(line_prefix, 1)
    ELSE format_label(NthLabel(k - 1), k)

\* the sub-chunks read that the generator has gone past
ProcessedPieces ==
    LET all == AllPieces(ChunksOf(inp_log))
    IN SubSeq(all, 1, Len(all) - Len(sub_chunks))

C15_FormFeeds ==
    ~Contains(line_prefix, form_feed)
        => /\ mode = "pagebreaks" =>
                  /\ ~Contains(out \o sr_chunk, form_feed)
                  /\ ~Contains(line_prefix_s, form_feed)
           /\ (mode = "prefix" /\ gen_pc # "start") =>
                  /\ CountByte(out \o sr_chunk, form_feed)
                         = CountByte(InputBytes, form_feed)
                  /\ Finished =>
                         CountByte(out, form_feed) = CountByte(InputBytes, form_feed)

\* postproc_pagebreaks has emitted text from both sides of a form feed
C15_Witness ==
    /\ mode = "pagebreaks" /\ Finished
    /\ \E i \in DOMAIN inp_log :
          /\ inp_log[i].t = "chunk"
          /\ Len(inp_log[i].b) >= 3
          /\ inp_log[i].b[1] = NL /\ inp_log[i].b[2] = form_feed
          /\ inp_log[i].b[3] = NL

\* the whole output for the chunks read so far
FullOutput ==
    IF mode = "pagebreaks"
    THEN format_label(line_prefix, 1)
         \o Concat(PageYields(AllPieces(ChunksOf(inp_log)),
                              format_label(line_prefix, 1), 0))
    ELSE PrefixOutput

\* C16: when the input fails with e after the chunks c1..ck, the consumer has
\* received the literal or label and the whole output of c1..ck before it
\* receives e, and it receives e itself, once.
C16_ErrorInOrder ==
    /\ Len(err_seen) <= 1
    /\ \A i \in DOMAIN inp_log :
          inp_log[i].t = "err" =>
              /\ i = Len(inp_log)
              /\ err_seen = <<inp_log[i].e>>
              /\ yielded[Len(yielded)] = inp_log[i]
              /\ out = FullOutput
              /\ sr_chunk = <<>>
    /\ err_seen # <<>> => inp_log[Len(inp_log)].t = "err"

\* postproc_pagebreaks delivered a labelled chunk, then the error, then the
\* end of the stream
C16_Witness ==
    /\ mode = "pagebreaks"
    /\ err_seen = <<"TimedOut">>
    /\ page_count >= 1
    /\ last = "eof"

\* C17: the output of postproc_prefix is that of the run which reads the same
\* bytes as one chunk, whatever the chunks are: it depends on the
\* concatenation of the chunks alone.
C17_PrefixChunking ==
    (mode = "prefix" /\ gen_pc # "start")
        => /\ out \o sr_chunk = line_prefix_o \o prefix_chunk(InputBytes)
           /\ Finished => out = line_prefix_o \o prefix_chunk(InputBytes)

\* two chunks with a newline each, the second with text before it
C17_Witness ==
    /\ mode = "prefix" /\ Finished
    /\ line_prefix # <<>>
    /\ Len(ChunksOf(inp_log)) = 2
    /\ Contains(ChunksOf(inp_log)[1], NL)
    /\ Contains(ChunksOf(inp_log)[2], NL)
    /\ ChunksOf(inp_log)[2][1] # NL

\* what postproc_pagebreaks emits when it reads the bytes as one chunk
OneChunkPages(bytes) ==
    IF bytes = <<>> THEN <<>>
    ELSE Concat(PageYields(Split(bytes, form_feed),
                           format_label(line_prefix, 1), 0))

\* C18: the output of postproc_pagebreaks and the final page_count are those
\* of the run which reads the same bytes as one chunk, whatever the chunks
\* are.
C18_PageChunking ==
    (mode = "pagebreaks" /\ Finished /\ err_seen = <<>>)
        => /\ out = format_label(line_prefix, 1) \o OneChunkPages(InputBytes)
           /\ page_count = (IF InputBytes = <<>> THEN 0
                            ELSE WithNewline(Split(InputBytes, form_feed)))

\* the first item the generator yields
FirstItem ==
    IF mode = "pagebreaks" THEN format_label(line_prefix, 1) ELSE line_prefix

\* the output of the chunks read before the last one
DeliveredBefore(chunks) ==
    LET front == SubSeq(chunks, 1, Len(chunks) - 1)
    IN FirstItem
       \o (IF mode = "pagebreaks"
           THEN Concat(PageYields(AllPieces(front), format_label(line_prefix, 1), 0))
           ELSE PrefixedChunks(front))

\* the number of items yielded after the first one
LaterItems ==
    Len(err_seen)
    + (IF mode = "pagebreaks" THEN WithNewline(ProcessedPieces)
       ELSE Len(ChunksOf(inp_log)))

LazyState ==
    /\ gen_pc = "start" => (inp_log = <<>> /\ yielded = <<>> /\ out = <<>>)
    /\ gen_pc # "start" =>
          /\ yielded[1] = Chunk(FirstItem)
          /\ Len(yielded) = 1 + LaterItems
          /\ ChunksOf(inp_log) # <<>> =>
                StartsWith(out, DeliveredBefore(ChunksOf(inp_log)))

LazyStep ==
    inp_log' # inp_log =>
        /\ pull = "polling"
        /\ gen_pc = "loop"
        /\ sr_chunk = <<>> /\ sub_chunks = <<>>
        /\ Len(inp_log') = Len(inp_log) + 1

\* C19: production is lazy and ordered: the literal or the first label is the
\* first item yielded, once, before the input is read; the input is read
\* only in a pending poll_read of the consumer and only when every item
\* yielded before has been copied out, so the output of all chunks read but
\* the last has been delivered.
C19_LazyOrdered == [] LazyState /\ [][LazyStep]_vars

\* a second chunk is being read: the output of the first has been delivered
C19_Witness ==
    /\ Len(ChunksOf(inp_log)) = 2
    /\ Contains(ChunksOf(inp_log)[1], NL)
    /\ line_prefix # <<>>
    /\ pull = "polling"
    /\ out = DeliveredBefore(ChunksOf(inp_log))

====
